---------------------------- MODULE Spec2Model ----------------------------
(***************************************************************************)
(* A model of src/main.py, the FactSage XML -> CSV analyzer:               *)
(*   convert_factsage_xml_to_txt  (canonicalizer)                          *)
(*   parse_txt_pages              (reconstructor)                          *)
(*   is_*_phase / is_*_puresolid  (phase classifier)                       *)
(*   group_simulations            (run grouper)                            *)
(*   analyze_simulation           (run analyzer)                           *)
(*   run_liquid_analysis, analyze_xml_path_to_file (report assembler)      *)
(*                                                                         *)
(* Numbers.  A Python float v is an integer: v * Scale (Scale = 10^7) for  *)
(* masses, weight fractions, moles, mole fractions and activities, so      *)
(* that 0.01 and 0.0099999 are both exact, and v * TScale (TScale = 10^4)  *)
(* for temperatures, which keeps 1873.15 K within TLC's 32-bit integers.   *)
(* Arithmetic is exact; inputs are chosen away from the places where       *)
(* binary rounding decides a comparison.  A number printed by fmt3, fmt4   *)
(* or "{:.3f}" is modelled by the text it yields: a sign and a count of    *)
(* thousandths (or of ten-thousandths).                                    *)
(*                                                                         *)
(* Text.  Labels (phase names, species names, page ids) are sequences of   *)
(* one-character strings, so that substring tests, lower-casing and the    *)
(* regular expressions of the source are computed, not assumed.            *)
(***************************************************************************)
EXTENDS Integers, Sequences, FiniteSets, TLC

VARIABLES
    pc,         \* position of the entry point under study
    sim,        \* analyze_simulation: the argument sim_pages (caller's order)
    sim_pages,  \* analyze_simulation: the local sim_pages after line 400
    pg_idx,     \* analyze_simulation: 1-based position of the for loop (412)
    loc,        \* analyze_simulation: the locals of lines 403-410
    result,     \* analyze_simulation: the returned dict (None before return)
    pages,      \* group_simulations: the argument pages
    p_idx,      \* group_simulations: 1-based position of the for loop (381)
    sims,       \* group_simulations: sims
    cur,        \* group_simulations: cur
    last_fe,    \* group_simulations: last_fe
    results,    \* run_liquid_analysis: results
    hits,       \* analyze_xml_path_to_file: hits (None before line 567)
    csv,        \* analyze_xml_path_to_file: the data rows written
    doc,        \* convert_factsage_xml_to_txt: the XML document
    out_lines,  \* convert_factsage_xml_to_txt: the page blocks emitted
    page_idx    \* convert_factsage_xml_to_txt: 1-based position of loop (93)

vars == <<pc, sim, sim_pages, pg_idx, loc, result, pages, p_idx, sims, cur,
          last_fe, results, hits, csv, doc, out_lines, page_idx>>

-----------------------------------------------------------------------------
(* Python's None and the values beside it *)

None == <<>>
Some(x) == <<x>>
Val(o) == o[1]

Scale == 10 ^ 7

TScale == 10 ^ 4

G_MIN == Scale \div 100

fe_tol == Scale \div 1000

top_k == 3

Abs(x) == IF x < 0 THEN -x ELSE x

Range(s) == {s[j] : j \in 1..Len(s)}

-----------------------------------------------------------------------------
(* Characters and strings *)

Ascii ==
    <<" ", "(", ")", "-", "0", "1", "2", "3", "4", "5", "6", "7", "8", "9", "?",
      "A", "B", "C", "D", "E", "F", "G", "H", "I", "J", "K", "L", "M",
      "N", "O", "P", "Q", "R", "S", "T", "U", "V", "W", "X", "Y", "Z", "_",
      "a", "b", "c", "d", "e", "f", "g", "h", "i", "j", "k", "l", "m",
      "n", "o", "p", "q", "r", "s", "t", "u", "v", "w", "x", "y", "z">>

\* ord(c), as a rank within Ascii
CodeTable == [c \in Range(Ascii) |-> CHOOSE j \in 1..Len(Ascii) : Ascii[j] = c]

Code(c) == CodeTable[c]

Digits == {Ascii[j] : j \in CodeTable["0"]..CodeTable["9"]}

Uppers == {Ascii[j] : j \in CodeTable["A"]..CodeTable["Z"]}

Lowers == {Ascii[j] : j \in CodeTable["a"]..CodeTable["z"]}

IsDigit(c) == c \in Digits

IsLetter(c) == c \in Uppers \/ c \in Lowers

\* \w of Python's re
IsWordChar(c) == IsLetter(c) \/ IsDigit(c) \/ c = "_"

LowerTable ==
    [c \in Range(Ascii) |->
        IF c \in Uppers
        THEN Ascii[CodeTable[c] - CodeTable["A"] + CodeTable["a"]] ELSE c]

LowerChar(c) == LowerTable[c]

\* str.lower()
Lower(s) == [j \in 1..Len(s) |-> LowerChar(s[j])]

\* sub in s
Contains(s, sub) ==
    \E j \in 0..(Len(s) - Len(sub)) : SubSeq(s, j + 1, j + Len(sub)) = sub

\* s.replace(sub, "")
RECURSIVE RemoveAll(_, _)
RemoveAll(s, sub) ==
    IF Len(s) < Len(sub) \/ s = <<>> THEN s
    ELSE IF SubSeq(s, 1, Len(sub)) = sub
         THEN RemoveAll(SubSeq(s, Len(sub) + 1, Len(s)), sub)
         ELSE <<s[1]>> \o RemoveAll(Tail(s), sub)

\* a < b for Python strings: lexicographic by code point
RECURSIVE StrLess(_, _)
StrLess(a, b) ==
    IF b = <<>> THEN FALSE
    ELSE IF a = <<>> THEN TRUE
    ELSE IF a[1] = b[1] THEN StrLess(Tail(a), Tail(b))
    ELSE Code(a[1]) < Code(b[1])

\* sorted(set(names)) for a list of strings
SortedSet(names) ==
    LET S == Range(names)
    IN  [r \in 1..Cardinality(S) |->
            CHOOSE x \in S : Cardinality({y \in S : StrLess(y, x)}) = r - 1]

\* The permutation sorted(xs, key=..., reverse=True) applies, from the keys:
\* Python's sort is stable, also with reverse=True, so equal keys keep their
\* original order.
SortPermDesc(keys) ==
    LET n == Len(keys)
        Before(a, b) == keys[a] > keys[b] \/ (keys[a] = keys[b] /\ a < b)
    IN  [r \in 1..n |->
            CHOOSE j \in 1..n : Cardinality({a \in 1..n : Before(a, j)}) = r - 1]

SortedDesc(items, keys) ==
    LET perm == SortPermDesc(keys) IN [r \in 1..Len(items) |-> items[perm[r]]]

-----------------------------------------------------------------------------
(* Phase classification helpers, lines 314-341 *)

is_metal_liquid_phase(name) ==
    LET n == Lower(name)
    IN  Contains(n, <<"f", "e", "-", "l", "i", "q">>)
        \/ Contains(n, <<"l", "i", "q", "u", "i", "d">>)

is_slag_liquid_phase(name) ==
    LET n == Lower(name)
    IN  /\ Contains(n, <<"s", "l", "a", "g">>)
        /\ \/ Contains(n, <<"l", "i", "q">>)
           \/ Contains(n, <<"l", "i", "q", "u", "i", "d">>)

\* re.search(r'\b(bcc|fcc|hcp)\b', n)
HasStructureTag(n) ==
    \E j \in 0..(Len(n) - 3) :
        /\ SubSeq(n, j + 1, j + 3) \in
              {<<"b", "c", "c">>, <<"f", "c", "c">>, <<"h", "c", "p">>}
        /\ (j = 0 \/ ~IsWordChar(n[j]))
        /\ (j + 3 = Len(n) \/ ~IsWordChar(n[j + 4]))

is_metal_intermetallic_phase(name) ==
    LET n == Lower(name)
    IN  IF \/ Contains(n, <<"l", "i", "q">>)
           \/ Contains(n, <<"l", "i", "q", "u", "i", "d">>)
           \/ Contains(n, <<"s", "l", "a", "g">>)
        THEN FALSE
        ELSE \/ HasStructureTag(n)
             \/ /\ Contains(n, <<"f", "e">>)
                /\ Contains(n, <<"s", "i">>)
                /\ ~Contains(n, <<"o">>)

is_metal_intermetallic_puresolid(name) ==
    LET raw == RemoveAll(name, <<"(", "s", ")">>)
    IN  /\ Contains(raw, <<"F", "e">>)
        /\ Contains(raw, <<"S", "i">>)
        /\ ~Contains(raw, <<"O">>)

is_slag_solid_phase(name) ==
    LET n == Lower(name)
    IN  IF \/ Contains(n, <<"l", "i", "q">>)
           \/ Contains(n, <<"l", "i", "q", "u", "i", "d">>)
        THEN FALSE
        ELSE IF Contains(n, <<"s", "l", "a", "g">>) THEN TRUE
        ELSE Contains(n, <<"o">>)

is_slag_puresolid(name) == Contains(name, <<"O">>)

-----------------------------------------------------------------------------
(* analyze_simulation, lines 398-484 *)

\* [f(x) for x in xs]
Names(xs) == [j \in 1..Len(xs) |-> xs[j].name]

\* {r["name"]: (r["W"], r["a"], r["g"]) for r in rows}: a dict keeps a key at
\* the place of its first insertion and with the value of its last
CompOf(rows) ==
    LET firsts == {j \in 1..Len(rows) :
                      \A m \in 1..(j - 1) : rows[m].name # rows[j].name}
        last(nm) == CHOOSE j \in 1..Len(rows) :
                      /\ rows[j].name = nm
                      /\ \A m \in (j + 1)..Len(rows) : rows[m].name # nm
    IN  [r \in 1..Cardinality(firsts) |->
            LET j == CHOOSE j \in firsts :
                        Cardinality({m \in firsts : m < j}) = r - 1
                row == rows[last(rows[j].name)]
            IN  [name |-> row.name, W |-> row.W, a |-> row.a, g |-> row.g]]

\* comp.get("Si", (0.0, 0.0, 0.0))[0]
SiOf(comp) ==
    IF \E j \in 1..Len(comp) : comp[j].name = <<"S", "i">>
    THEN comp[CHOOSE j \in 1..Len(comp) : comp[j].name = <<"S", "i">>].W
    ELSE 0

\* lines 415-421
SlagPhasesHere(pg) ==
    LET IsSlagPh(ph) == ph.rows # <<>> /\ is_slag_solid_phase(ph.name)
        IsSlagPs(ps) == ps.g >= G_MIN /\ is_slag_puresolid(ps.name)
    IN  Names(SelectSeq(pg.phases, IsSlagPh))
            \o Names(SelectSeq(pg.pure_solids, IsSlagPs))

\* lines 428-434
MetalPhasesHere(pg) ==
    LET IsMetalPh(ph) == ph.rows # <<>> /\ is_metal_intermetallic_phase(ph.name)
        IsMetalPs(ps) ==
            ps.g >= G_MIN /\ is_metal_intermetallic_puresolid(ps.name)
    IN  Names(SelectSeq(pg.phases, IsMetalPh))
            \o Names(SelectSeq(pg.pure_solids, IsMetalPs))

\* lines 441-445: the first phase that is a metallic liquid with rows, or None
MetalLiquidOf(pg) ==
    LET IsLiq(ph) == is_metal_liquid_phase(ph.name) /\ ph.rows # <<>>
        found == SelectSeq(pg.phases, IsLiq)
    IN  IF found = <<>> THEN None ELSE Some(found[1])

\* lines 452-456
SlagLiquidOf(pg) ==
    LET IsSlagLiq(ph) == is_slag_liquid_phase(ph.name) /\ ph.rows # <<>>
        found == SelectSeq(pg.phases, IsSlagLiq)
    IN  IF found = <<>> THEN None ELSE Some(found[1])

\* lines 403-410
InitLocals ==
    [collected |-> <<>>, stop_T |-> None, stop_phases |-> <<>>,
     prev_slag_comp |-> None, slag_first_T |-> None,
     slag_first_phases |-> <<>>, slag_comp_before |-> None, broke |-> FALSE]

\* the event recorded with the slag liquid of the page of the event itself
SlagFirstStepSamePage(st, pg) ==
    IF st.slag_first_T = None /\ SlagPhasesHere(pg) # <<>>
    THEN [st EXCEPT !.slag_first_T = Some(pg.T_C),
                    !.slag_first_phases = SortedSet(SlagPhasesHere(pg)),
                    !.slag_comp_before =
                        IF SlagLiquidOf(pg) = None THEN st.prev_slag_comp
                        ELSE Some(CompOf(Val(SlagLiquidOf(pg)).rows))]
    ELSE st

\* lines 414-425
SlagFirstStep(st, pg) ==
    IF st.slag_first_T = None /\ SlagPhasesHere(pg) # <<>>
    THEN [st EXCEPT !.slag_first_T = Some(pg.T_C),
                    !.slag_first_phases = SortedSet(SlagPhasesHere(pg)),
                    !.slag_comp_before = st.prev_slag_comp]
    ELSE st

\* lines 440-449
LiquidStep(st, pg) ==
    LET liq == MetalLiquidOf(pg)
    IN  IF liq = None THEN st
        ELSE LET comp == CompOf(Val(liq).rows)
             IN  [st EXCEPT !.collected = Append(@,
                     [T_C |-> pg.T_C, comp |-> comp, Si_w |-> SiOf(comp)])]

\* lines 451-458
SlagLiquidStep(st, pg) ==
    LET slag_liq == SlagLiquidOf(pg)
    IN  IF slag_liq = None THEN st
        ELSE [st EXCEPT !.prev_slag_comp = Some(CompOf(Val(slag_liq).rows))]

\* lines 435-438: whether this page is the stop point
StopsHere(st, pg) == MetalPhasesHere(pg) # <<>> /\ st.stop_T = None

\* the iteration without the break of line 438: the stop is recorded and the
\* rest of the body, and of the run, is still scanned
ScanPageNoBreak(st, pg) ==
    LET st1 == SlagFirstStep(st, pg)
        st2 == IF StopsHere(st1, pg)
               THEN [st1 EXCEPT !.stop_T = Some(pg.T_C),
                                !.stop_phases = SortedSet(MetalPhasesHere(pg))]
               ELSE st1
    IN  SlagLiquidStep(LiquidStep(st2, pg), pg)

\* one iteration of the loop of line 412 (broke: it ended in the break of 438)
ScanPage(st, pg) ==
    LET st1 == SlagFirstStep(st, pg)
    IN  IF StopsHere(st1, pg)
        THEN [st1 EXCEPT !.stop_T = Some(pg.T_C),
                         !.stop_phases = SortedSet(MetalPhasesHere(pg)),
                         !.broke = TRUE]
        ELSE SlagLiquidStep(LiquidStep(st1, pg), pg)

\* sorted(sim_pages, key=lambda x: x["T_C"], reverse=True), line 400
SortByT(xs) == SortedDesc(xs, [j \in 1..Len(xs) |-> xs[j].T_C])

\* a max that keeps the last of the largest
BestOfLast(collected) ==
    collected[CHOOSE j \in 1..Len(collected) :
        /\ \A m \in 1..Len(collected) : collected[m].Si_w <= collected[j].Si_w
        /\ \A m \in (j + 1)..Len(collected) :
              collected[m].Si_w < collected[j].Si_w]

\* max(collected, key=lambda r: r["Si_w"]): the first of the largest
BestOf(collected) ==
    collected[CHOOSE j \in 1..Len(collected) :
        /\ \A m \in 1..Len(collected) : collected[m].Si_w <= collected[j].Si_w
        /\ \A m \in 1..(j - 1) : collected[m].Si_w < collected[j].Si_w]

\* x or {}
OrEmpty(o) == IF o = None THEN <<>> ELSE Val(o)

\* a run without candidates scored as zero instead of left unset
ResultOfScoredZero(sorted, st) ==
    LET fe_g == IF sorted = <<>> THEN None ELSE sorted[1].Fe_g
        rest == [stop_T |-> st.stop_T, stop_phases |-> st.stop_phases,
                 slag_first_T |-> st.slag_first_T,
                 slag_first_phases |-> st.slag_first_phases,
                 slag_comp_before |-> OrEmpty(st.slag_comp_before)]
    IN  IF st.collected = <<>>
        THEN [Fe_g |-> fe_g, best_T |-> None, best_Si |-> Some(0),
              best_comp |-> <<>>] @@ rest
        ELSE LET best == BestOf(st.collected)
             IN  [Fe_g |-> fe_g, best_T |-> Some(best.T_C),
                  best_Si |-> Some(best.Si_w), best_comp |-> best.comp] @@ rest

\* lines 401 and 460-484
ResultOf(sorted, st) ==
    LET fe_g == IF sorted = <<>> THEN None ELSE sorted[1].Fe_g
        rest == [stop_T |-> st.stop_T, stop_phases |-> st.stop_phases,
                 slag_first_T |-> st.slag_first_T,
                 slag_first_phases |-> st.slag_first_phases,
                 slag_comp_before |-> OrEmpty(st.slag_comp_before)]
    IN  IF st.collected = <<>>
        THEN [Fe_g |-> fe_g, best_T |-> None, best_Si |-> None,
              best_comp |-> <<>>] @@ rest
        ELSE LET best == BestOf(st.collected)
             IN  [Fe_g |-> fe_g, best_T |-> Some(best.T_C),
                  best_Si |-> Some(best.Si_w), best_comp |-> best.comp] @@ rest

\* the loop of line 412 from position j on
RECURSIVE ScanFrom(_, _, _)
ScanFrom(sorted, st, j) ==
    IF j > Len(sorted) \/ st.broke THEN st
    ELSE ScanFrom(sorted, ScanPage(st, sorted[j]), j + 1)

\* analyze_simulation as a function of its argument
analyze_simulation(sim_arg) ==
    ResultOf(SortByT(sim_arg), ScanFrom(SortByT(sim_arg), InitLocals, 1))

-----------------------------------------------------------------------------
(* Labels and rows the inputs are built from *)

MaxPages == 3

Fe == <<"F", "e">>
Si == <<"S", "i">>
SiO2 == <<"S", "i", "O", "2">>
CaO == <<"C", "a", "O">>
FeLiq == <<"F", "e", "-", "l", "i", "q">>
SlagLiq == <<"S", "l", "a", "g", "-", "l", "i", "q">>
bcc_A2 == <<"b", "c", "c", "_", "A", "2">>
FeSi == <<"F", "e", "S", "i">>
FeSi2s == <<"F", "e", "S", "i", "2", "(", "s", ")">>
Fe3Sis == <<"F", "e", "3", "S", "i", "(", "s", ")">>
SiO2s == <<"S", "i", "O", "2", "(", "s", ")">>
MeO_A == <<"M", "e", "O", "_", "A">>
SlagLiquid == SlagLiq \o <<"u", "i", "d">>

\* a species row as parse_txt_pages returns it, from its mass and weight %
\* in units of 1/Scale
RowU(name, g, W) ==
    [name |-> name, g |-> g, W |-> W, n |-> Scale, X |-> Scale \div 2,
     a |-> W \div 100]

\* the same from whole grams and whole percents
Row(name, g, W) == RowU(name, g * Scale, W * Scale)

Phase(name, rows) == [name |-> name, rows |-> rows]

Solid(name, g) == [name |-> name, g |-> g]

\* what a page of a run may hold
Contents ==
    { [phases |-> <<Phase(FeLiq, <<Row(Fe, 98, 98), Row(Si, 2, 2)>>)>>,
       pure_solids |-> <<>>],
      [phases |-> <<Phase(FeLiq, <<Row(Fe, 95, 95), Row(Si, 5, 5)>>),
                    Phase(SlagLiq, <<Row(SiO2, 9, 60), Row(CaO, 6, 40)>>)>>,
       pure_solids |-> <<>>],
      [phases |-> <<Phase(FeLiq, <<Row(Fe, 100, 100)>>)>>,
       pure_solids |-> <<Solid(FeSi2s, G_MIN - 1)>>],
      [phases |-> <<Phase(FeLiq, <<Row(Fe, 91, 91), Row(Si, 9, 9)>>),
                    Phase(SlagLiq, <<Row(CaO, 8, 80), Row(SiO2, 2, 20)>>)>>,
       pure_solids |-> <<Solid(SiO2s, Scale), Solid(FeSi2s, Scale)>>],
      [phases |-> <<Phase(bcc_A2, <<Row(Fe, 50, 100)>>),
                    Phase(FeLiq, <<Row(Fe, 98, 98), Row(Si, 2, 2)>>)>>,
       pure_solids |-> <<>>],
      [phases |-> <<Phase(FeLiq, <<>>),
                    Phase(SlagLiq, <<Row(SiO2, 9, 60), Row(CaO, 6, 40)>>)>>,
       pure_solids |-> <<Solid(SiO2s, G_MIN)>>],
      [phases |-> <<Phase(FeSi, <<Row(Fe, 7, 70), Row(Si, 3, 30)>>),
                    Phase(FeLiq, <<Row(Fe, 93, 93), Row(Si, 7, 7)>>)>>,
       pure_solids |-> <<Solid(Fe3Sis, G_MIN), Solid(Fe3Sis, Scale)>>] }

Temps == {1500 * TScale, 1600 * TScale}

\* a run analyze_simulation is given: the pages of f, a choice over
\* Temps x Contents for each position, numbered in the caller's order
RunOf(f) ==
    [j \in DOMAIN f |->
        [page_num |-> j, T_C |-> f[j][1], Fe_g |-> Some(10 * Scale),
         phases |-> f[j][2].phases, pure_solids |-> f[j][2].pure_solids]]

-----------------------------------------------------------------------------
(* analyze_simulation as a state machine: the sort, then one step for each  *)
(* iteration of the loop, then the return                                  *)

IdleGroup ==
    /\ pages = <<>> /\ p_idx = 0 /\ sims = <<>> /\ cur = <<>> /\ last_fe = None

IdleReport == results = <<>> /\ hits = None /\ csv = <<>>

IdleConvert == doc = <<>> /\ out_lines = <<>> /\ page_idx = 0

analyzerVars == <<sim, sim_pages, pg_idx, loc, result>>
groupVars == <<pages, p_idx, sims, cur, last_fe>>
reportVars == <<results, hits, csv>>
convertVars == <<doc, out_lines, page_idx>>

\* lines 400-410
AnalyzeSort ==
    /\ pc = "analyze"
    /\ sim_pages' = SortByT(sim)
    /\ loc' = InitLocals
    /\ pg_idx' = 1
    /\ pc' = "scan"
    /\ UNCHANGED <<sim, result, groupVars, reportVars, convertVars>>

\* lines 412-458, one iteration
AnalyzeScan ==
    /\ pc = "scan"
    /\ pg_idx <= Len(sim_pages)
    /\ ~loc.broke
    /\ loc' = ScanPage(loc, sim_pages[pg_idx])
    /\ pg_idx' = IF loc'.broke THEN pg_idx ELSE pg_idx + 1
    /\ UNCHANGED <<pc, sim, sim_pages, result, groupVars, reportVars,
                   convertVars>>

\* lines 460-484
AnalyzeReturn ==
    /\ pc = "scan"
    /\ (pg_idx > Len(sim_pages) \/ loc.broke)
    /\ result' = Some(ResultOf(sim_pages, loc))
    /\ pc' = "returned"
    /\ UNCHANGED <<sim, sim_pages, pg_idx, loc, groupVars, reportVars,
                   convertVars>>

Init ==
    /\ pc = "analyze"
    /\ \E n \in 0..MaxPages : \E f \in [1..n -> Temps \X Contents] :
          sim = RunOf(f)
    /\ sim_pages = <<>> /\ pg_idx = 0 /\ loc = InitLocals /\ result = None
    /\ IdleGroup /\ IdleReport /\ IdleConvert

Next == AnalyzeSort \/ AnalyzeScan \/ AnalyzeReturn

Spec == Init /\ [][Next]_vars

-----------------------------------------------------------------------------
(* What the scan is expected to produce, stated over the sorted pages *)

HasMetalMatch(pg) ==
    \/ \E ph \in Range(pg.phases) :
          ph.rows # <<>> /\ is_metal_intermetallic_phase(ph.name)
    \/ \E ps \in Range(pg.pure_solids) :
          ps.g >= G_MIN /\ is_metal_intermetallic_puresolid(ps.name)

MetalMatchNames(pg) ==
    {ph.name : ph \in {q \in Range(pg.phases) :
                         q.rows # <<>> /\ is_metal_intermetallic_phase(q.name)}}
    \cup
    {ps.name : ps \in {q \in Range(pg.pure_solids) :
                         q.g >= G_MIN /\ is_metal_intermetallic_puresolid(q.name)}}

HasSlagSolid(pg) ==
    \/ \E ph \in Range(pg.phases) :
          ph.rows # <<>> /\ is_slag_solid_phase(ph.name)
    \/ \E ps \in Range(pg.pure_solids) :
          ps.g >= G_MIN /\ is_slag_puresolid(ps.name)

HasMetalLiquid(pg) ==
    \E ph \in Range(pg.phases) : is_metal_liquid_phase(ph.name) /\ ph.rows # <<>>

HasSlagLiquid(pg) ==
    \E ph \in Range(pg.phases) : is_slag_liquid_phase(ph.name) /\ ph.rows # <<>>

\* the scan position of the first page holding a metal-intermetallic match,
\* or one past the last page
StopIdx ==
    IF \E j \in 1..Len(sim_pages) : HasMetalMatch(sim_pages[j])
    THEN CHOOSE j \in 1..Len(sim_pages) :
            /\ HasMetalMatch(sim_pages[j])
            /\ \A m \in 1..(j - 1) : ~HasMetalMatch(sim_pages[m])
    ELSE Len(sim_pages) + 1

Stopped == StopIdx <= Len(sim_pages)

\* a list of names is sorted and duplicate-free
StrictlySorted(names) ==
    \A a, b \in 1..Len(names) : a < b => StrLess(names[a], names[b])

\* scan positions, in order, of the pages of `among` that satisfy Test
Positions(among, Test(_)) ==
    LET S == {j \in among : Test(sim_pages[j])}
    IN  [r \in 1..Cardinality(S) |->
            CHOOSE j \in S : Cardinality({m \in S : m < j}) = r - 1]

\* the silicon weight of the metallic liquid of a page: that of the
\* first metallic-liquid phase with rows, 0 without a Si row
SiliconOf(pg) ==
    LET liq == CHOOSE ph \in Range(pg.phases) :
                  /\ is_metal_liquid_phase(ph.name) /\ ph.rows # <<>>
                  /\ \A m \in 1..Len(pg.phases) :
                        (pg.phases[m] = ph) =>
                            \A b \in 1..(m - 1) :
                                ~(/\ is_metal_liquid_phase(pg.phases[b].name)
                                  /\ pg.phases[b].rows # <<>>)
        rows == liq.rows
    IN  IF \E r \in 1..Len(rows) : rows[r].name = Si
        THEN rows[CHOOSE r \in 1..Len(rows) :
                    /\ rows[r].name = Si
                    /\ \A b \in (r + 1)..Len(rows) : rows[b].name # Si].W
        ELSE 0

\* the stop fields, and what the pages up to the stop page contributed
StopFieldsRight(r) ==
    IF Stopped
    THEN /\ r.stop_T = Some(sim_pages[StopIdx].T_C)
         /\ Range(r.stop_phases) = MetalMatchNames(sim_pages[StopIdx])
         /\ StrictlySorted(r.stop_phases)
         /\ loc.broke /\ pg_idx = StopIdx
    ELSE r.stop_T = None /\ r.stop_phases = <<>> /\ ~loc.broke

\* the candidates are exactly the metallic liquids of the pages scanned
\* strictly before the stop page, and the snapshot is the last slag
\* liquid among those pages
NothingFromStopOn ==
    LET cand == Positions(1..(StopIdx - 1), HasMetalLiquid)
        slag == Positions(1..(StopIdx - 1), HasSlagLiquid)
    IN  /\ Len(loc.collected) = Len(cand)
        /\ \A c \in 1..Len(cand) :
              loc.collected[c].T_C = sim_pages[cand[c]].T_C
        /\ (slag = <<>>) <=> (loc.prev_slag_comp = None)
        /\ slag # <<>> =>
              loc.prev_slag_comp =
                 Some(CompOf(Val(SlagLiquidOf(sim_pages[slag[Len(slag)]])).rows))

BestBeforeStop(r) ==
    (r.best_T # None /\ r.stop_T # None) =>
        /\ Val(r.best_T) >= Val(r.stop_T)
        /\ \E j \in 1..(StopIdx - 1) :
              HasMetalLiquid(sim_pages[j]) /\ sim_pages[j].T_C = Val(r.best_T)

\* C1 as stated: the stop point is the first page, in scan order, holding
\* a metal-intermetallic match; stop_T and stop_phases are its temperature
\* and sorted, duplicate-free match names; and neither the stop page nor a
\* later one contributes a liquid candidate, a slag-liquid snapshot or the
\* first-slag-solid event, so that best_T >= stop_T.
C1_AsClaimed ==
    pc = "returned" =>
        /\ StopFieldsRight(Val(result))
        /\ NothingFromStopOn
        /\ BestBeforeStop(Val(result))
        /\ (\A j \in 1..(StopIdx - 1) : ~HasSlagSolid(sim_pages[j]))
              => Val(result).slag_first_T = None

\* C1 as amended: as above, but the first-slag-solid event may be recorded
\* at the stop page itself (its check runs before the metal check); only
\* the pages after the stop page contribute nothing at all.
C1_StopPoint ==
    pc = "returned" =>
        /\ StopFieldsRight(Val(result))
        /\ NothingFromStopOn
        /\ BestBeforeStop(Val(result))
        /\ (\A j \in 1..Len(sim_pages) :
               j <= StopIdx => ~HasSlagSolid(sim_pages[j]))
              => Val(result).slag_first_T = None
        /\ (/\ Stopped /\ HasSlagSolid(sim_pages[StopIdx])
            /\ \A j \in 1..(StopIdx - 1) : ~HasSlagSolid(sim_pages[j]))
              => Val(result).slag_first_T = Some(sim_pages[StopIdx].T_C)

\* a run stopped at its second or third page, by several matches, with a
\* candidate collected before, a slag solid first seen at the stop page and
\* a metallic liquid on the stop page and after it
C1_Witness ==
    /\ pc = "returned" /\ Stopped /\ StopIdx > 1 /\ StopIdx < Len(sim_pages)
    /\ Val(result).best_T # None
    /\ Val(result).slag_first_T = Val(result).stop_T
    /\ \A j \in 1..(StopIdx - 1) : ~HasSlagSolid(sim_pages[j])
    /\ HasMetalLiquid(sim_pages[StopIdx])
    /\ HasSlagLiquid(sim_pages[StopIdx])
    /\ HasMetalLiquid(sim_pages[StopIdx + 1])

\* the scan order: descending temperature, equal temperatures in the
\* caller's order (a page's page_num is its place in the caller's list)
ScanOrderRight ==
    /\ Len(sim_pages) = Len(sim)
    /\ Range(sim_pages) = Range(sim)
    /\ \A a, b \in 1..Len(sim_pages) :
          a < b =>
             \/ sim_pages[a].T_C > sim_pages[b].T_C
             \/ /\ sim_pages[a].T_C = sim_pages[b].T_C
                /\ sim_pages[a].page_num < sim_pages[b].page_num

\* the scan positions that contribute a metallic-liquid candidate
Candidates == {j \in 1..(StopIdx - 1) : HasMetalLiquid(sim_pages[j])}

\* C2: pages are scanned in descending temperature, equal temperatures in
\* their original order; without a candidate best_T and best_Si are unset
\* and best_comp is empty; otherwise the selected candidate has the largest
\* silicon weight among the candidates (0 without a Si row) and is the first
\* in scan order among those tied on it.
C2_BestLiquid ==
    /\ pc # "analyze" => ScanOrderRight
    /\ pc = "returned" =>
          LET r == Val(result)
          IN  IF Candidates = {}
              THEN r.best_T = None /\ r.best_Si = None /\ r.best_comp = <<>>
              ELSE \E j \in Candidates :
                      /\ \A m \in Candidates :
                            SiliconOf(sim_pages[m]) <= SiliconOf(sim_pages[j])
                      /\ \A m \in Candidates :
                            m < j =>
                               SiliconOf(sim_pages[m]) < SiliconOf(sim_pages[j])
                      /\ r.best_Si = Some(SiliconOf(sim_pages[j]))
                      /\ r.best_T = Some(sim_pages[j].T_C)
                      /\ r.best_comp =
                            CompOf(Val(MetalLiquidOf(sim_pages[j])).rows)

\* a run given out of scan order, with two pages of one temperature, whose
\* largest silicon weight is reached by two candidates of different
\* temperatures, and with a candidate that has no Si row
C2_Witness ==
    /\ pc = "returned"
    /\ sim_pages # sim
    /\ \E a, b \in 1..Len(sim) : a # b /\ sim[a].T_C = sim[b].T_C
    /\ \E a, b \in Candidates :
          /\ sim_pages[a].T_C > sim_pages[b].T_C
          /\ SiliconOf(sim_pages[a]) = SiliconOf(sim_pages[b])
          /\ Val(result).best_Si = Some(SiliconOf(sim_pages[a]))
          /\ Val(result).best_T = Some(sim_pages[a].T_C)
    /\ \E c \in Candidates :
          \A r \in Range(Val(MetalLiquidOf(sim_pages[c])).rows) : r.name # Si

\* C8 as stated: a phase named "bcc_A2" is a metal-intermetallic solution
\* phase, so the first page of the scan that holds a "bcc_A2" phase with at
\* least one row, no earlier page holding a match, is the run's stop point.
C8_AsClaimed ==
    pc = "returned" =>
        \A j \in 1..Len(sim_pages) :
           (/\ \E ph \in Range(sim_pages[j].phases) :
                  ph.name = bcc_A2 /\ ph.rows # <<>>
            /\ \A m \in 1..(j - 1) :
                  /\ ~HasMetalMatch(sim_pages[m])
                  /\ \A ph \in Range(sim_pages[m].phases) : ph.name # bcc_A2)
              => Val(result).stop_T = Some(sim_pages[j].T_C)

-----------------------------------------------------------------------------
(* group_simulations, lines 377-393 *)

MaxGroupLen == 3

\* page number 1 starts a run whether or not the current one has members
NeedsResetNoCur(cur_arg, last, pg) ==
    \/ pg.page_num = 1
    \/ /\ last # None /\ pg.Fe_g # None
       /\ Abs(Val(pg.Fe_g) - Val(last)) > fe_tol

\* the mass is never compared
NeedsResetPageOnly(cur_arg, last, pg) == pg.page_num = 1 /\ cur_arg # <<>>

\* lines 382-384: reset
NeedsReset(cur_arg, last, pg) ==
    \/ pg.page_num = 1 /\ cur_arg # <<>>
    \/ /\ last # None /\ pg.Fe_g # None
       /\ Abs(Val(pg.Fe_g) - Val(last)) > fe_tol

\* lines 382-390: one iteration of the loop over pages
GroupPage(st, pg) ==
    LET reset == NeedsReset(st.cur, st.last_fe, pg)
    IN  [sims |-> IF reset THEN Append(st.sims, st.cur) ELSE st.sims,
         cur |-> Append(IF reset THEN <<>> ELSE st.cur, pg),
         last_fe |-> IF pg.Fe_g # None THEN pg.Fe_g ELSE st.last_fe]

\* lines 391-393
GroupEnd(st) == IF st.cur # <<>> THEN Append(st.sims, st.cur) ELSE st.sims

RECURSIVE GroupFrom(_, _, _)
GroupFrom(ps, st, j) ==
    IF j > Len(ps) THEN st ELSE GroupFrom(ps, GroupPage(st, ps[j]), j + 1)

\* group_simulations as a function of its argument
group_simulations(ps) ==
    GroupEnd(GroupFrom(ps, [sims |-> <<>>, cur |-> <<>>, last_fe |-> None], 1))

\* lines 381-390
GroupStep ==
    /\ pc = "group"
    /\ p_idx <= Len(pages)
    /\ LET st == GroupPage([sims |-> sims, cur |-> cur, last_fe |-> last_fe],
                           pages[p_idx])
       IN  sims' = st.sims /\ cur' = st.cur /\ last_fe' = st.last_fe
    /\ p_idx' = p_idx + 1
    /\ UNCHANGED <<pc, pages, analyzerVars, reportVars, convertVars>>

\* lines 391-393
GroupReturn ==
    /\ pc = "group"
    /\ p_idx > Len(pages)
    /\ sims' = GroupEnd([sims |-> sims, cur |-> cur, last_fe |-> last_fe])
    /\ pc' = "grouped"
    /\ UNCHANGED <<pages, p_idx, cur, last_fe, analyzerVars, reportVars,
                   convertVars>>

\* the tracked masses the pages report, in units of 1/Scale g: none, 10,
\* 10.0008, 10.0016 (a drift in steps below the tolerance) and 20
GroupMasses ==
    {None, Some(10 * Scale), Some(10 * Scale + 8000),
     Some(10 * Scale + 16000), Some(20 * Scale)}

GroupPageNums == {1, 2, 3}

GroupPageOf(num, mass) ==
    [page_num |-> num, T_C |-> 0, Fe_g |-> mass, phases |-> <<>>,
     pure_solids |-> <<>>]

\* masses [10,10,10,20,20] with page numbers [1,2,3,1,2]
ExamplePages ==
    <<GroupPageOf(1, Some(10 * Scale)), GroupPageOf(2, Some(10 * Scale)),
      GroupPageOf(3, Some(10 * Scale)), GroupPageOf(1, Some(20 * Scale)),
      GroupPageOf(2, Some(20 * Scale))>>

InitGroup ==
    /\ pc = "group"
    /\ \/ \E n \in 0..MaxGroupLen :
             \E f \in [1..n -> GroupPageNums \X GroupMasses] :
                pages = [j \in 1..n |-> GroupPageOf(f[j][1], f[j][2])]
       \/ pages = ExamplePages
    /\ p_idx = 1 /\ sims = <<>> /\ cur = <<>> /\ last_fe = None
    /\ sim = <<>> /\ sim_pages = <<>> /\ pg_idx = 0
    /\ loc = InitLocals /\ result = None
    /\ IdleReport /\ IdleConvert

NextGroup == GroupStep \/ GroupReturn

SpecGroup == InitGroup /\ [][NextGroup]_vars

\* the runs laid end to end
RECURSIVE Flatten(_)
Flatten(ss) == IF ss = <<>> THEN <<>> ELSE Head(ss) \o Flatten(Tail(ss))

RECURSIVE SumLen(_, _)
SumLen(ss, r) == IF r = 0 THEN 0 ELSE Len(ss[r]) + SumLen(ss, r - 1)

\* the positions in pages at which a run of sims starts
RunStarts == {SumLen(sims, r - 1) + 1 : r \in 1..Len(sims)}

\* the mass of the last page before position j that reports one, or None
LastReported(j) ==
    IF \E m \in 1..(j - 1) : pages[m].Fe_g # None
    THEN pages[CHOOSE m \in 1..(j - 1) :
                  /\ pages[m].Fe_g # None
                  /\ \A b \in (m + 1)..(j - 1) : pages[b].Fe_g = None].Fe_g
    ELSE None

RuleA(j) == pages[j].page_num = 1 /\ j > 1

RuleB(j) ==
    /\ pages[j].Fe_g # None /\ LastReported(j) # None
    /\ Abs(Val(pages[j].Fe_g) - Val(LastReported(j))) > fe_tol

\* C3: the runs are non-empty and contiguous and their concatenation is the
\* input; a run starts before a page exactly when rule (a) or rule (b)
\* holds of it, the remembered mass being that of the last earlier page
\* that reported one, across run boundaries and unchanged by pages that
\* report none; masses [10,10,10,20,20] with page numbers [1,2,3,1,2] give
\* two runs of lengths 3 and 2.
C3_Grouping ==
    /\ pc = "group" => last_fe = LastReported(p_idx)
    /\ pc = "grouped" =>
          /\ \A r \in 1..Len(sims) : sims[r] # <<>>
          /\ Flatten(sims) = pages
          /\ \A j \in 2..Len(pages) : (j \in RunStarts) <=> (RuleA(j) \/ RuleB(j))
          /\ pages # <<>> => 1 \in RunStarts
          /\ pages = ExamplePages =>
                Len(sims) = 2 /\ Len(sims[1]) = 3 /\ Len(sims[2]) = 2

\* the example of the claim, grouped
C3_Witness ==
    /\ pc = "grouped" /\ pages = ExamplePages
    /\ sims = <<SubSeq(pages, 1, 3), SubSeq(pages, 4, 5)>>

\* C9 as stated: any two pages of one run that both report the tracked mass
\* differ by at most the tolerance.
C9_AsClaimed ==
    pc = "grouped" =>
        \A r \in 1..Len(sims) :
           \A a, b \in 1..Len(sims[r]) :
              (sims[r][a].Fe_g # None /\ sims[r][b].Fe_g # None) =>
                 Abs(Val(sims[r][a].Fe_g) - Val(sims[r][b].Fe_g)) <= fe_tol

\* C9 as amended: two pages of one run that both report the tracked mass,
\* with no reporting page between them, differ by at most the tolerance.
C9_Consecutive ==
    pc = "grouped" =>
        \A r \in 1..Len(sims) :
           \A a, b \in 1..Len(sims[r]) :
              (/\ a < b
               /\ sims[r][a].Fe_g # None /\ sims[r][b].Fe_g # None
               /\ \A m \in (a + 1)..(b - 1) : sims[r][m].Fe_g = None) =>
                 Abs(Val(sims[r][a].Fe_g) - Val(sims[r][b].Fe_g)) <= fe_tol

\* one run of three pages whose mass drifts 10, 10.0008, 10.0016
C9_Witness ==
    /\ pc = "grouped" /\ Len(sims) = 1 /\ Len(sims[1]) = 3
    /\ sims[1][1].Fe_g = Some(10 * Scale)
    /\ sims[1][2].Fe_g = Some(10 * Scale + 8000)
    /\ sims[1][3].Fe_g = Some(10 * Scale + 16000)

-----------------------------------------------------------------------------
(* Number formatting, lines 36-40, and the "{:.2f}" of lines 588-593 *)

\* 10^places
Pow10(places) == 10 ^ places

\* round |x| / unit to the nearest integer, halves to even: what "%.{n}f"
\* does with a value it represents exactly
RoundHalfEven(x, unit) ==
    LET q == x \div unit
        r == x % unit
    IN  IF 2 * r < unit THEN q
        ELSE IF 2 * r > unit THEN q + 1
        ELSE IF q % 2 = 0 THEN q ELSE q + 1

\* f"{x:.{places}f}" of a float held in units of 1/sc: the sign printed, the
\* digits as a count of 10^-places, and the number of decimals
Fixed(x, sc, places) ==
    [neg |-> x < 0, digits |-> RoundHalfEven(Abs(x), sc \div Pow10(places)),
     places |-> places]

\* the text "0"
ZeroText == [neg |-> FALSE, digits |-> 0, places |-> 0]

fmt3(x, sc) == IF Abs(x) = 0 THEN ZeroText ELSE Fixed(x, sc, 3)

fmt4(x, sc) == IF Abs(x) = 0 THEN ZeroText ELSE Fixed(x, sc, 4)

\* float(text) of such a text, in units of 1/sc
FloatOf(t, sc) ==
    LET v == t.digits * (sc \div Pow10(t.places)) IN IF t.neg THEN -v ELSE v

-----------------------------------------------------------------------------
(* run_liquid_analysis, lines 487-494, and the report rows of             *)
(* analyze_xml_path_to_file, lines 584-596                                *)

MaxReportPages == 4

\* line 492: r["best_Si"] is not None and r["best_comp"]
IsValidHit(r) == r.best_Si # None /\ r.best_comp # <<>>

\* the first top_k results, not sorted
RankHitsUnsorted(rs) ==
    LET valid == SelectSeq(rs, IsValidHit)
    IN  SubSeq(valid, 1, IF Len(valid) < top_k THEN Len(valid) ELSE top_k)

\* lines 492-494: filter, sort by -best_Si (a stable ascending sort of the
\* negated key: descending best_Si, equal ones in their order), slice
RankHits(rs) ==
    LET valid == SelectSeq(rs, IsValidHit)
        ranked == SortedDesc(valid,
                             [j \in 1..Len(valid) |-> Val(valid[j].best_Si)])
    IN  SubSeq(ranked, 1, IF Len(ranked) < top_k THEN Len(ranked) ELSE top_k)

\* line 490
AnalyzeAll(ss) == [j \in 1..Len(ss) |-> analyze_simulation(ss[j])]

\* run_liquid_analysis as a function of the pages parse_txt_pages returns
run_liquid_analysis(ps) == RankHits(AnalyzeAll(group_simulations(ps)))

\* a cell of the report
NotFound == [kind |-> "not found", val |-> <<>>]

NumCell(t) == [kind |-> "number", val |-> <<t>>]

\* ", ".join(names)
NamesCell(names) ==
    IF names = <<>> THEN NotFound ELSE [kind |-> "names", val |-> names]

RECURSIVE SumG(_)
SumG(comp) == IF comp = <<>> THEN 0 ELSE Head(comp).g + SumG(Tail(comp))

\* comp_text_with_total, lines 346-372: the species by descending weight,
\* each with fmt3 of its weight and fmt4 of its activity, and the total mass
CompCell(comp) ==
    IF comp = <<>> THEN NotFound
    ELSE LET items == SortedDesc(comp, [j \in 1..Len(comp) |-> comp[j].W])
         IN  [kind |-> "composition",
              val |-> <<[j \in 1..Len(items) |->
                           [name |-> items[j].name,
                            W |-> fmt3(items[j].W, Scale),
                            a |-> fmt4(items[j].a, Scale)]],
                        fmt3(SumG(comp), Scale)>>]

\* lines 585-596: one row
ReportRow(idx, r) ==
    [Rank |-> idx,
     Fe_g |-> IF r.Fe_g = None THEN NotFound
              ELSE NumCell(fmt3(Val(r.Fe_g), Scale)),
     best_T |-> IF r.best_T = None THEN NotFound
                ELSE NumCell(Fixed(Val(r.best_T), TScale, 2)),
     best_Si |-> IF r.best_Si = None THEN NotFound
                 ELSE NumCell(fmt3(Val(r.best_Si), Scale)),
     best_comp |-> CompCell(r.best_comp),
     stop_T |-> IF r.stop_T = None THEN NotFound
                ELSE NumCell(Fixed(Val(r.stop_T), TScale, 2)),
     stop_phases |-> NamesCell(r.stop_phases),
     slag_first_T |-> IF r.slag_first_T = None THEN NotFound
                      ELSE NumCell(Fixed(Val(r.slag_first_T), TScale, 2)),
     slag_first_phases |-> NamesCell(r.slag_first_phases),
     slag_comp_before |-> CompCell(r.slag_comp_before)]

\* lines 584-596
ReportRows(hs) == [j \in 1..Len(hs) |-> ReportRow(j, hs[j])]

\* line 489
ReportGroup ==
    /\ pc = "report"
    /\ sims' = group_simulations(pages)
    /\ pc' = "analyze_all"
    /\ UNCHANGED <<pages, p_idx, cur, last_fe, analyzerVars, reportVars,
                   convertVars>>

\* line 490
ReportAnalyze ==
    /\ pc = "analyze_all"
    /\ results' = AnalyzeAll(sims)
    /\ pc' = "rank"
    /\ UNCHANGED <<hits, csv, groupVars, analyzerVars, convertVars>>

\* lines 492-494 and 567
ReportRank ==
    /\ pc = "rank"
    /\ hits' = Some(RankHits(results))
    /\ pc' = "write"
    /\ UNCHANGED <<results, csv, groupVars, analyzerVars, convertVars>>

\* lines 569-598
ReportWrite ==
    /\ pc = "write"
    /\ csv' = ReportRows(Val(hits))
    /\ pc' = "written"
    /\ UNCHANGED <<results, hits, groupVars, analyzerVars, convertVars>>

\* what a page of the batch holds: no metallic liquid, or one with silicon
\* at 0.01, 0.03, 0.07 or 0.09
ReportKinds == {0, 1, 3, 7, 9}

\* a page starts a run (page number 1) with any of these, or continues the
\* run (page number 2) with no metallic liquid or with silicon at 0.09
ReportChoices == ({1} \X ReportKinds) \cup ({2} \X {0, 9})

ReportPageOf(pos, num, kind) ==
    [page_num |-> num, T_C |-> (1600 - 10 * pos) * TScale,
     Fe_g |-> Some(10 * Scale),
     phases |->
        IF kind = 0
        THEN <<Phase(SlagLiq, <<Row(SiO2, 9, 60), Row(CaO, 6, 40)>>)>>
        ELSE <<Phase(FeLiq, <<Row(Fe, 90, 90),
                              RowU(Si, Scale, kind * (Scale \div 100))>>)>>,
     pure_solids |-> <<>>]

InitReport ==
    /\ pc = "report"
    /\ \E n \in 0..MaxReportPages :
          \E f \in [1..n -> ReportChoices] :
             pages = [j \in 1..n |-> ReportPageOf(j, f[j][1], f[j][2])]
    /\ p_idx = 0 /\ sims = <<>> /\ cur = <<>> /\ last_fe = None
    /\ sim = <<>> /\ sim_pages = <<>> /\ pg_idx = 0
    /\ loc = InitLocals /\ result = None
    /\ IdleReport /\ IdleConvert

NextReport == ReportGroup \/ ReportAnalyze \/ ReportRank \/ ReportWrite

SpecReport == InitReport /\ [][NextReport]_vars

\* the best silicon weights of a list of results
BestSis(rs) == [j \in 1..Len(rs) |-> rs[j].best_Si]

\* a run of the batch has no metallic-liquid candidate
NoCandidate(run) ==
    \A j \in 1..Len(run) :
       HasMetalLiquid(run[j]) =>
          \E m \in 1..Len(run) :
             /\ HasMetalMatch(run[m])
             /\ \/ run[m].T_C > run[j].T_C
                \/ run[m].T_C = run[j].T_C /\ m <= j

\* C4: the report holds at most top_k = 3 runs, in non-increasing best_Si,
\* and they are the highest-scoring runs of the batch; a run without a
\* valid best liquid is not among them; no pages give an empty report; runs
\* with best_Si [0.03, 0.07, 0.01, 0.09] are reported as [0.09, 0.07, 0.03].
C4_Ranking ==
    pc = "written" =>
        LET hs == Val(hits)
            valid == {j \in 1..Len(results) : results[j].best_Si # None}
        IN  /\ Len(hs) <= 3
            /\ Len(hs) = IF Cardinality(valid) < 3 THEN Cardinality(valid) ELSE 3
            /\ \A a, b \in 1..Len(hs) :
                  a < b => Val(hs[a].best_Si) >= Val(hs[b].best_Si)
            /\ \E f \in [1..Len(hs) -> valid] :
                  /\ \A a, b \in 1..Len(hs) : a # b => f[a] # f[b]
                  /\ \A a \in 1..Len(hs) : hs[a] = results[f[a]]
                  /\ \A m \in valid :
                        (\A a \in 1..Len(hs) : f[a] # m) =>
                           \A a \in 1..Len(hs) :
                              Val(results[m].best_Si) <= Val(hs[a].best_Si)
            /\ Len(csv) = Len(hs)
            /\ \A a \in 1..Len(hs) :
                  /\ csv[a].Rank = a
                  /\ csv[a].best_Si = NumCell(fmt3(Val(hs[a].best_Si), Scale))
            /\ pages = <<>> => hs = <<>> /\ csv = <<>>
            /\ BestSis(results) = <<Some(3 * (Scale \div 100)),
                                    Some(7 * (Scale \div 100)),
                                    Some(Scale \div 100),
                                    Some(9 * (Scale \div 100))>>
                  => BestSis(hs) = <<Some(9 * (Scale \div 100)),
                                     Some(7 * (Scale \div 100)),
                                     Some(3 * (Scale \div 100))>>

\* the example of the claim, reported
C4_Witness ==
    /\ pc = "written"
    /\ BestSis(results) = <<Some(3 * (Scale \div 100)), Some(7 * (Scale \div 100)),
                            Some(Scale \div 100), Some(9 * (Scale \div 100))>>
    /\ BestSis(Val(hits)) = <<Some(9 * (Scale \div 100)),
                              Some(7 * (Scale \div 100)),
                              Some(3 * (Scale \div 100))>>
    /\ Len(csv) = 3

\* C7 as stated: a run without a metallic-liquid candidate is analysed
\* without failure and reported, its best temperature, best silicon weight
\* and best-liquid composition rendered as "not found".
C7_AsClaimed ==
    (pc = "written" /\ Len(sims) <= top_k) =>
        /\ Len(results) = Len(sims)
        /\ Cardinality({j \in 1..Len(sims) : NoCandidate(sims[j])})
              = Cardinality({a \in 1..Len(csv) :
                                /\ csv[a].best_T = NotFound
                                /\ csv[a].best_Si = NotFound
                                /\ csv[a].best_comp = NotFound})

\* C7 as amended: such a run is analysed without failure, with best_T and
\* best_Si unset and best_comp empty, and is then left out of the report:
\* the report has one row for each of the (at most top_k) runs that have a
\* candidate and none renders a best-liquid field as "not found".
C7_LeftOut ==
    (pc \in {"rank", "write", "written"} =>
        /\ Len(results) = Len(sims)
        /\ \A j \in 1..Len(sims) :
              NoCandidate(sims[j]) <=>
                 /\ results[j].best_T = None
                 /\ results[j].best_Si = None
                 /\ results[j].best_comp = <<>>)
    /\ (pc = "written" =>
        /\ Len(csv) <= Cardinality({j \in 1..Len(sims) : ~NoCandidate(sims[j])})
        /\ Len(sims) <= top_k =>
              Len(csv) = Cardinality({j \in 1..Len(sims) : ~NoCandidate(sims[j])})
        /\ \A a \in 1..Len(csv) :
              /\ csv[a].best_T # NotFound
              /\ csv[a].best_Si # NotFound
              /\ csv[a].best_comp # NotFound)

\* a batch of three runs, the second without a metallic liquid, reported
\* in two rows
C7_Witness ==
    /\ pc = "written" /\ Len(sims) = 3 /\ Len(csv) = 2
    /\ NoCandidate(sims[2]) /\ ~NoCandidate(sims[1]) /\ ~NoCandidate(sims[3])
    /\ results[2].best_T = None

-----------------------------------------------------------------------------
(* convert_factsage_xml_to_txt, lines 47-206.  The document is its header  *)
(* (solutions with their species, solid species, reactants) and its pages; *)
(* a page has an id (None without the attribute), T in kelvin or None,     *)
(* the Celsius number of its description or None, reactant instances,     *)
(* solution totals and per-species results.  Amounts of reactants and      *)
(* molar masses are in units of 1/MolScale.                                *)

MaxDocPages == 2

MolScale == 10 ^ 3

\* 273.15
Kelvin0 == (27315 * TScale) \div 100

\* re.sub(r'^FT[a-zA-Z]+-', '', raw_state), lines 20-22
clean_phase_state(raw) ==
    IF /\ Len(raw) >= 4 /\ raw[1] = "F" /\ raw[2] = "T"
       /\ \E e \in 4..Len(raw) :
             raw[e] = "-" /\ \A m \in 3..(e - 1) : IsLetter(raw[m])
    THEN LET e == CHOOSE e \in 4..Len(raw) :
                     raw[e] = "-" /\ \A m \in 3..(e - 1) : IsLetter(raw[m])
         IN  SubSeq(raw, e + 1, Len(raw))
    ELSE raw

\* d.get(key): the last entry of xs whose id is key, or None
Lookup(xs, key) ==
    IF \E j \in 1..Len(xs) : xs[j].id = key
    THEN Some(xs[CHOOSE j \in 1..Len(xs) :
                    /\ xs[j].id = key
                    /\ \A m \in (j + 1)..Len(xs) : xs[m].id # key])
    ELSE None

\* lines 97-108, with T given
CelsiusOfKelvin(tK) == tK - Kelvin0

\* lines 97-108
CelsiusOf(page) ==
    IF page.T # None THEN CelsiusOfKelvin(Val(page.T))
    ELSE IF page.descC # None THEN Val(page.descC)
    ELSE 0

\* line 94, the id printed: the attribute, or "?"
PidOf(page) == IF page.id = None THEN <<"?">> ELSE Val(page.id)

\* line 128: g = n * mw
ReactantMass(n, mw) == (n * mw) * (Scale \div (MolScale * MolScale))

\* lines 123-129: one line for each reactant of the header that the page
\* holds an instance of
ReactantLines(hdr, page) ==
    LET Present(meta) == Lookup(page.reactants, meta.id) # None
        metas == SelectSeq(hdr.reactants, Present)
    IN  [j \in 1..Len(metas) |->
            LET n == Val(Lookup(page.reactants, metas[j].id)).n
            IN  [name |-> metas[j].name, n |-> fmt3(n, MolScale),
                 m |-> fmt3(ReactantMass(n, metas[j].mw), Scale)]]

\* results.get(sid, {}) read with fnum: a missing result reads as zeros
ResultOrZero(page, sid) ==
    IF Lookup(page.results, sid) = None
    THEN [id |-> sid, g |-> 0, W |-> 0, n |-> 0, X |-> 0, a |-> 0]
    ELSE Val(Lookup(page.results, sid))

\* the weight fraction printed as it is given
WeightAsGiven(W) == W

\* line 174: row['W'] * 100
WeightPercent(W) == W * 100

\* line 160: the row is skipped when g < G_MIN
RowListed(g) == ~(g < G_MIN)

\* lines 149-176: the rows of one phase, as printed
PhaseRowLines(sol, page) ==
    LET Listed(sp) == RowListed(ResultOrZero(page, sp.id).g)
        kept == SelectSeq(sol.species, Listed)
        rows == [j \in 1..Len(kept) |->
                    [name |-> kept[j].name] @@ ResultOrZero(page, kept[j].id)]
        ranked == SortedDesc(rows, [j \in 1..Len(rows) |-> rows[j].g])
    IN  [j \in 1..Len(ranked) |->
            [name |-> ranked[j].name,
             g |-> fmt3(ranked[j].g, Scale),
             W |-> fmt3(WeightPercent(ranked[j].W), Scale),
             n |-> fmt3(ranked[j].n, Scale),
             X |-> fmt3(ranked[j].X, Scale),
             a |-> fmt4(ranked[j].a, Scale)]]

\* lines 137-139: the ids of the solutions to list, by descending mass
OrderedPhases(page) ==
    LET firsts == {j \in 1..Len(page.solutions) :
                      \A m \in 1..(j - 1) :
                         page.solutions[m].id # page.solutions[j].id}
        ids == [r \in 1..Cardinality(firsts) |->
                   page.solutions[CHOOSE j \in firsts :
                       Cardinality({m \in firsts : m < j}) = r - 1].id]
        mass(sid) == Val(Lookup(page.solutions, sid)).g
        Heavy(sid) == mass(sid) >= G_MIN
        kept == SelectSeq(ids, Heavy)
    IN  SortedDesc(kept, [j \in 1..Len(kept) |-> mass(kept[j])])

\* lines 141-182: the PHASE sections
PhaseSections(hdr, page) ==
    LET ordered == OrderedPhases(page)
    IN  [j \in 1..Len(ordered) |->
            LET sol == Lookup(hdr.solutions, ordered[j])
            IN  [name |-> IF sol = None
                          THEN <<"P", "h", "a", "s", "e", "-">> \o ordered[j]
                          ELSE clean_phase_state(Val(sol).state),
                 rows |-> IF sol = None THEN <<>>
                          ELSE PhaseRowLines(Val(sol), page)]]

\* lines 77-81: the species flagged phase = "s", in document order
solid_species_map(hdr) ==
    LET Flagged(sp) == sp.phase = "s"
        inSolutions(j) == hdr.solutions[j].species
        RECURSIVE Upto(_)
        Upto(j) == IF j = 0 THEN <<>> ELSE Upto(j - 1) \o inSolutions(j)
    IN  SelectSeq(Upto(Len(hdr.solutions)) \o hdr.species, Flagged)

\* lines 184-200: the rows of the PURE SOLIDS section (no section when empty)
SolidLines(hdr, page) ==
    LET Listed(sp) ==
            /\ Lookup(page.results, sp.id) # None
            /\ Val(Lookup(page.results, sp.id)).g >= G_MIN
        kept == SelectSeq(solid_species_map(hdr), Listed)
        rows == [j \in 1..Len(kept) |->
                    [name |-> kept[j].name,
                     g |-> Val(Lookup(page.results, kept[j].id)).g,
                     a |-> Val(Lookup(page.results, kept[j].id)).a]]
        ranked == SortedDesc(rows, [j \in 1..Len(rows) |-> rows[j].g])
    IN  [j \in 1..Len(ranked) |->
            [name |-> ranked[j].name, g |-> fmt3(ranked[j].g, Scale),
             a |-> fmt4(ranked[j].a, Scale)]]

\* lines 93-200: the block of lines one page yields
PageBlock(hdr, page) ==
    [pid |-> PidOf(page),
     T |-> fmt3(CelsiusOf(page), TScale),
     reactants |-> ReactantLines(hdr, page),
     phases |-> PhaseSections(hdr, page),
     pure_solids |-> SolidLines(hdr, page)]

-----------------------------------------------------------------------------
(* parse_txt_pages, lines 211-309, on those blocks *)

\* [0-9.]+ against a printed number: it has no sign
MatchesUnsigned(t) == ~t.neg

\* \d+ against the page id
IsPageNumber(pid) == pid # <<>> /\ \A j \in 1..Len(pid) : IsDigit(pid[j])

RECURSIVE IntOf(_)
IntOf(ds) ==
    IF ds = <<>> THEN 0
    ELSE 10 * IntOf(SubSeq(ds, 1, Len(ds) - 1))
            + (Code(ds[Len(ds)]) - Code("0"))

\* line 226: the page header matches
HeaderMatches(block) == IsPageNumber(block.pid) /\ MatchesUnsigned(block.T)

\* line 241: ^\s*Fe\b.*?m\s*=\s*([0-9.]+)\s*g against a reactant line
IsFeLine(line) ==
    /\ Len(line.name) >= 2 /\ line.name[1] = "F" /\ line.name[2] = "e"
    /\ (Len(line.name) = 2 \/ ~IsWordChar(line.name[3]))
    /\ MatchesUnsigned(line.m)

\* lines 233-249: the mass of the last matching reactant line, or None
FeMassOf(block) ==
    LET hit == SelectSeq(block.reactants, IsFeLine)
    IN  IF hit = <<>> THEN None ELSE Some(FloatOf(hit[Len(hit)].m, Scale))

\* \S+ against a name printed in its column
IsToken(name) == name # <<>> /\ \A j \in 1..Len(name) : name[j] # " "

\* lines 262-283: the rows of a PHASE section
ParsePhaseRows(rows) ==
    LET Matches(row) == IsToken(row.name)
        hit == SelectSeq(rows, Matches)
    IN  [j \in 1..Len(hit) |->
            [name |-> hit[j].name,
             g |-> FloatOf(hit[j].g, Scale), W |-> FloatOf(hit[j].W, Scale),
             n |-> FloatOf(hit[j].n, Scale), X |-> FloatOf(hit[j].X, Scale),
             a |-> FloatOf(hit[j].a, Scale)]]

\* lines 286-296
ParseSolids(rows) ==
    LET Matches(row) == IsToken(row.name)
        hit == SelectSeq(rows, Matches)
    IN  [j \in 1..Len(hit) |->
            [name |-> hit[j].name, g |-> FloatOf(hit[j].g, Scale)]]

\* lines 231-306: the page a block with a matching header yields
ParseBlock(block) ==
    [page_num |-> IntOf(block.pid),
     T_C |-> FloatOf(block.T, TScale),
     Fe_g |-> FeMassOf(block),
     phases |-> [j \in 1..Len(block.phases) |->
                    [name |-> block.phases[j].name,
                     rows |-> ParsePhaseRows(block.phases[j].rows)]],
     pure_solids |-> ParseSolids(block.pure_solids)]

\* parse_txt_pages: a block whose header line does not match is skipped
\* whole (lines 227-229 step over each of its lines)
parse_txt_pages(blocks) ==
    LET hit == SelectSeq(blocks, HeaderMatches)
    IN  [j \in 1..Len(hit) |-> ParseBlock(hit[j])]

-----------------------------------------------------------------------------
(* analyze_xml_path_to_file, lines 559-598: the document is converted,    *)
(* page by page, the text is parsed, the pages are grouped, analysed,     *)
(* ranked and written.                                                     *)

\* lines 93-200, one iteration
ConvertStep ==
    /\ pc = "convert"
    /\ page_idx < Len(doc.pages)
    /\ page_idx' = page_idx + 1
    /\ out_lines' = Append(out_lines, PageBlock(doc.header, doc.pages[page_idx + 1]))
    /\ UNCHANGED <<pc, doc, groupVars, analyzerVars, reportVars>>

\* lines 202-206 and 565
ConvertReturn ==
    /\ pc = "convert"
    /\ page_idx = Len(doc.pages)
    /\ pc' = "parse"
    /\ UNCHANGED <<convertVars, groupVars, analyzerVars, reportVars>>

\* line 488
ParsePages ==
    /\ pc = "parse"
    /\ pages' = parse_txt_pages(out_lines)
    /\ pc' = "report"
    /\ UNCHANGED <<p_idx, sims, cur, last_fe, convertVars, analyzerVars,
                   reportVars>>

FTFeLiq == <<"F", "T", "m", "i", "s", "c", "-">> \o FeLiq

SiOg == <<"S", "i", "O", "(", "g", ")">>

\* the header of the documents: a metallic liquid of Fe and Si under an
\* instrument prefix, a slag liquid of SiO2, two species flagged solid and a
\* gas species, and the reactants Fe and Si with their molar masses
DocHeader ==
    [solutions |->
        <<[id |-> <<"1">>, state |-> FTFeLiq,
           species |-> <<[id |-> <<"1", "1">>, name |-> Fe, phase |-> "l"],
                         [id |-> <<"1", "2">>, name |-> Si, phase |-> "l"]>>],
          [id |-> <<"2">>, state |-> SlagLiq,
           species |-> <<[id |-> <<"2", "1">>, name |-> SiO2, phase |-> "l"]>>]>>,
     species |-> <<[id |-> <<"3", "1">>, name |-> FeSi2s, phase |-> "s"],
                   [id |-> <<"3", "2">>, name |-> SiO2s, phase |-> "s"],
                   [id |-> <<"4", "1">>, name |-> SiOg, phase |-> "g"]>>,
     reactants |-> <<[id |-> <<"1">>, name |-> Fe, mw |-> 55845],
                     [id |-> <<"2">>, name |-> Si, mw |-> 28086]>>]

\* a result element from its mass and weight fraction in units of 1/Scale
DocResult(sid, g, W) ==
    [id |-> sid, g |-> g, W |-> W, n |-> g \div 50, X |-> W,
     a |-> (W \div 10) * 9 + 33]

\* the id attribute of a page and its temperature: T in kelvin (1873.15,
\* 1773.15, 200), or no T and a description with "-5 C" or without a number
At1600 ==
    [hasId |-> TRUE, T |-> Some((187315 * TScale) \div 100), descC |-> None]

At1500 ==
    [hasId |-> TRUE, T |-> Some((177315 * TScale) \div 100), descC |-> None]

At200K == [hasId |-> TRUE, T |-> Some(200 * TScale), descC |-> None]

NoId1500 ==
    [hasId |-> FALSE, T |-> Some((177315 * TScale) \div 100), descC |-> None]

Described5Below == [hasId |-> TRUE, T |-> None, descC |-> Some(-5 * TScale)]

NoTemperature == [hasId |-> TRUE, T |-> None, descC |-> None]

PageHeads ==
    {At1600, At1500, At200K, NoId1500, Described5Below, NoTemperature}

\* the metallic liquid of a page: its aggregate mass, and the mass and
\* weight fraction of Fe and of Si
UnlistedLiquid ==
    [sol |-> G_MIN - 1, gFe |-> 98 * Scale, WFe |-> 98 * (Scale \div 100),
     gSi |-> 2 * Scale, WSi |-> 2 * (Scale \div 100)]

LiquidSi2 ==
    [sol |-> 100 * Scale, gFe |-> 98 * Scale, WFe |-> 98 * (Scale \div 100),
     gSi |-> 2 * Scale, WSi |-> 2 * (Scale \div 100)]

LiquidSi5 ==
    [sol |-> 100 * Scale, gFe |-> 95 * Scale - 4000,
     WFe |-> 95 * (Scale \div 100) - 4,
     gSi |-> 5 * Scale + 4000, WSi |-> 5 * (Scale \div 100) + 4]

EmptyLiquid ==
    [sol |-> G_MIN, gFe |-> G_MIN - 1, WFe |-> Scale \div 2,
     gSi |-> G_MIN - 1, WSi |-> Scale \div 2]

LiquidSiRich ==
    [sol |-> 100 * Scale, gFe |-> G_MIN, WFe |-> Scale \div 10000,
     gSi |-> 100 * Scale - G_MIN, WSi |-> Scale - Scale \div 10000]

PageLiquids ==
    {UnlistedLiquid, LiquidSi2, LiquidSi5, EmptyLiquid, LiquidSiRich}

\* the masses of FeSi2(s) and SiO2(s) of a page, None without a result
PageSolids ==
    { <<None, None>>, <<Some(Scale), None>>,
      <<Some(G_MIN - 1), Some(G_MIN)>>, <<Some(G_MIN), Some(2 * Scale)>> }

DigitOf(d) == CHOOSE c \in Digits : Code(c) - Code("0") = d

\* a page element: its position gives its id when it has one; fe: it holds
\* an instance of the reactant Fe, 0.2 mol; slag: it holds the slag liquid,
\* 150 g of SiO2
DocPage(pos, head, fe, liq, slag, solid) ==
    [id |-> IF head.hasId THEN Some(<<DigitOf(pos)>>) ELSE None,
     T |-> head.T, descC |-> head.descC,
     reactants |->
        (IF fe THEN <<[id |-> <<"1">>, n |-> MolScale \div 5]>> ELSE <<>>)
        \o <<[id |-> <<"2">>, n |-> MolScale \div 10]>>,
     solutions |->
        <<[id |-> <<"1">>, g |-> liq.sol]>>
        \o (IF slag THEN <<[id |-> <<"2">>, g |-> 150 * Scale]>> ELSE <<>>),
     results |->
        <<DocResult(<<"1", "1">>, liq.gFe, liq.WFe),
          DocResult(<<"1", "2">>, liq.gSi, liq.WSi)>>
        \o (IF slag THEN <<DocResult(<<"2", "1">>, 150 * Scale, Scale)>>
            ELSE <<>>)
        \o (IF solid[1] = None THEN <<>>
            ELSE <<DocResult(<<"3", "1">>, Val(solid[1]), Scale)>>)
        \o (IF solid[2] = None THEN <<>>
            ELSE <<DocResult(<<"3", "2">>, Val(solid[2]), Scale)>>)
        \o <<DocResult(<<"4", "1">>, 3 * Scale, 0)>>]

\* the pages of the longer documents
Scenarios ==
    { <<At1600, TRUE, LiquidSi2, FALSE, <<None, None>>>>,
      <<At1500, TRUE, LiquidSi5, FALSE, <<None, None>>>>,
      <<At1500, TRUE, LiquidSi2, TRUE, <<None, None>>>>,
      <<At1500, TRUE, LiquidSi5, FALSE, <<Some(Scale), None>>>>,
      <<At200K, TRUE, LiquidSiRich, FALSE, <<None, None>>>>,
      <<NoId1500, TRUE, LiquidSiRich, FALSE, <<None, None>>>>,
      <<At1600, FALSE, EmptyLiquid, TRUE, <<None, None>>>>,
      <<NoTemperature, TRUE, UnlistedLiquid, TRUE, <<None, Some(G_MIN)>>>> }

DocOf(ps) == [header |-> DocHeader, pages |-> ps]

\* a document of one page of any make, or of up to MaxDocPages pages out of
\* Scenarios
InitPipeline ==
    /\ pc = "convert"
    /\ \/ \E head \in PageHeads, fe \in BOOLEAN, liq \in PageLiquids,
             slag \in BOOLEAN, solid \in PageSolids :
             doc = DocOf(<<DocPage(1, head, fe, liq, slag, solid)>>)
       \/ \E n \in (0..MaxDocPages) \ {1} :
             \E f \in [1..n -> Scenarios] :
                doc = DocOf([j \in 1..n |->
                               DocPage(j, f[j][1], f[j][2], f[j][3], f[j][4],
                                       f[j][5])])
    /\ out_lines = <<>> /\ page_idx = 0
    /\ pages = <<>> /\ p_idx = 0 /\ sims = <<>> /\ cur = <<>> /\ last_fe = None
    /\ sim = <<>> /\ sim_pages = <<>> /\ pg_idx = 0
    /\ loc = InitLocals /\ result = None
    /\ IdleReport

NextPipeline ==
    \/ ConvertStep \/ ConvertReturn \/ ParsePages
    \/ ReportGroup \/ ReportAnalyze \/ ReportRank \/ ReportWrite

SpecPipeline == InitPipeline /\ [][NextPipeline]_vars
-----------------------------------------------------------------------------
(* The listing rules of the canonicalizer and the round trip through the   *)
(* reconstructor                                                           *)

\* parse_txt_pages has returned
Parsed == pc \in {"report", "analyze_all", "rank", "write", "written"}

Near(x, y, tol) == Abs(x - y) <= tol

\* half a unit of the third and of the fourth decimal
Half3 == Scale \div 2000

Half4 == Scale \div 20000

AllSpecies(hdr) ==
    UNION {Range(sol.species) : sol \in Range(hdr.solutions)}
        \cup Range(hdr.species)

\* the solution of the header listed under this name
SolutionNamed(hdr, name) ==
    CHOOSE sol \in Range(hdr.solutions) : clean_phase_state(sol.state) = name

SpeciesNamed(among, name) == CHOOSE sp \in among : sp.name = name

\* the aggregate mass a page gives for a solution
AggregateMass(page, sid) == Val(Lookup(page.solutions, sid)).g

\* the solutions of the header a page gives an aggregate mass >= 0.01
QualifyingSolutions(hdr, page) ==
    {sol \in Range(hdr.solutions) :
        \E e \in Range(page.solutions) : e.id = sol.id /\ e.g >= G_MIN}

\* the species of a solution with a mass >= 0.01 at a page
QualifyingSpecies(sol, page) ==
    {sp \in Range(sol.species) : ResultOrZero(page, sp.id).g >= G_MIN}

\* the species flagged solid with a result at the page and a mass >= 0.01
QualifyingSolids(hdr, page) ==
    {sp \in AllSpecies(hdr) :
        /\ sp.phase = "s"
        /\ Lookup(page.results, sp.id) # None
        /\ Val(Lookup(page.results, sp.id)).g >= G_MIN}

\* names[k] for k in 1..n are the names of the members of among, each once
ListsExactly(n, name(_), among) ==
    /\ n = Cardinality(among)
    /\ \A x \in among : \E k \in 1..n : name(k) = x.name

NonIncreasing(n, mass(_)) == \A k \in 1..(n - 1) : mass(k) >= mass(k + 1)

\* the block of page j lists the phases, rows and solids the rules name, in
\* the order they name
ListingRight(j) ==
    LET hdr == doc.header
        page == doc.pages[j]
        blk == out_lines[j]
        sols == QualifyingSolutions(hdr, page)
        solids == QualifyingSolids(hdr, page)
        phaseName(k) == blk.phases[k].name
        phaseMass(k) == AggregateMass(page, SolutionNamed(hdr, phaseName(k)).id)
        solidName(k) == blk.pure_solids[k].name
        solidMass(k) ==
            Val(Lookup(page.results, SpeciesNamed(solids, solidName(k)).id)).g
    IN  /\ Len(blk.phases) = Cardinality(sols)
        /\ \A sol \in sols :
              \E k \in 1..Len(blk.phases) :
                 phaseName(k) = clean_phase_state(sol.state)
        /\ NonIncreasing(Len(blk.phases), phaseMass)
        /\ \A k \in 1..Len(blk.phases) :
              LET sol == SolutionNamed(hdr, phaseName(k))
                  kept == QualifyingSpecies(sol, page)
                  rows == blk.phases[k].rows
                  rowName(r) == rows[r].name
                  rowMass(r) ==
                      ResultOrZero(page, SpeciesNamed(kept, rowName(r)).id).g
              IN  /\ ListsExactly(Len(rows), rowName, kept)
                  /\ NonIncreasing(Len(rows), rowMass)
                  /\ \A r \in 1..Len(rows) :
                        rows[r].g = fmt3(rowMass(r), Scale)
        /\ ListsExactly(Len(blk.pure_solids), solidName, solids)
        /\ NonIncreasing(Len(blk.pure_solids), solidMass)
        /\ \A k \in 1..Len(blk.pure_solids) :
              blk.pure_solids[k].g = fmt3(solidMass(k), Scale)

\* every row and solid the block of page j lists is a row or solid of some
\* reconstructed page, under the same phase, with a mass >= 0.01
ListedSurvive(j) ==
    LET blk == out_lines[j]
    IN  /\ \A k \in 1..Len(blk.phases) :
              \A r \in 1..Len(blk.phases[k].rows) :
                 \E m \in 1..Len(pages) :
                    \E kk \in 1..Len(pages[m].phases) :
                       /\ pages[m].phases[kk].name = blk.phases[k].name
                       /\ \E row \in Range(pages[m].phases[kk].rows) :
                             /\ row.name = blk.phases[k].rows[r].name
                             /\ row.g >= G_MIN
        /\ \A k \in 1..Len(blk.pure_solids) :
              \E m \in 1..Len(pages) :
                 \E sd \in Range(pages[m].pure_solids) :
                    /\ sd.name = blk.pure_solids[k].name
                    /\ sd.g >= G_MIN

\* C10 as stated: in the block of every condition a solution phase is listed
\* iff its aggregate mass is >= 0.01, a species row iff its mass is >= 0.01,
\* a pure solid iff it is flagged solid, has a result and a mass >= 0.01,
\* each list in non-increasing mass (0.01 is in, 0.0099999 is out); and every
\* listed row is reconstructed, with a mass that is still >= 0.01.
C10_AsClaimed ==
    /\ \A j \in 1..Len(out_lines) : ListingRight(j)
    /\ Parsed => \A j \in 1..Len(out_lines) : ListedSurvive(j)

\* the reactant the grouper tracks, as the header has it
FeReactant(hdr) == CHOOSE meta \in Range(hdr.reactants) : meta.name = Fe

\* the page pg is what the round trip promises for page j of the document
RoundTrip(j, pg) ==
    LET hdr == doc.header
        page == doc.pages[j]
        blk == out_lines[j]
        fe == Lookup(page.reactants, FeReactant(hdr).id)
    IN  /\ Near(pg.T_C, CelsiusOf(page), TScale \div 2000)
        /\ IF fe = None THEN pg.Fe_g = None
           ELSE /\ pg.Fe_g # None
                /\ Near(Val(pg.Fe_g),
                        ReactantMass(Val(fe).n, FeReactant(hdr).mw), Half3)
        /\ Len(pg.phases) = Len(blk.phases)
        /\ \A k \in 1..Len(pg.phases) :
              LET sol == SolutionNamed(hdr, blk.phases[k].name)
                  kept == QualifyingSpecies(sol, page)
              IN  /\ pg.phases[k].name = blk.phases[k].name
                  /\ Len(pg.phases[k].rows) = Cardinality(kept)
                  /\ \A sp \in kept :
                        \E row \in Range(pg.phases[k].rows) :
                           LET src == ResultOrZero(page, sp.id)
                           IN  /\ row.name = sp.name
                               /\ Near(row.g, src.g, Half3)
                               /\ Near(row.W, 100 * src.W, Half3)
                               /\ Near(row.n, src.n, Half3)
                               /\ Near(row.X, src.X, Half3)
                               /\ Near(row.a, src.a, Half4)

\* C5 as stated: the reconstructor returns one condition for each condition
\* canonicalized, in order, with the temperature, the tracked reactant mass,
\* the phase names and the rows with mass >= 0.01 of the original within the
\* precision of the formats, a listed phase without rows being there with no
\* rows; for every temperature and page id the canonicalizer emits.
C5_AsClaimed ==
    Parsed =>
        /\ Len(pages) = Len(out_lines)
        /\ \A j \in 1..Len(pages) : RoundTrip(j, pages[j])

-----------------------------------------------------------------------------
(* End to end: what the report says of a document of one run *)

\* the reconstructor takes the header line of this page: its id is a number
\* and its Celsius temperature is printed without a sign
HeaderRecognised(page) == IsPageNumber(PidOf(page)) /\ CelsiusOf(page) >= 0

\* the metallic liquid of the header
MetalLiquidSolution(hdr) ==
    CHOOSE sol \in Range(hdr.solutions) :
        is_metal_liquid_phase(clean_phase_state(sol.state))

\* the page lists the metallic liquid with at least one row
LiquidListed(hdr, page) ==
    /\ MetalLiquidSolution(hdr) \in QualifyingSolutions(hdr, page)
    /\ QualifyingSpecies(MetalLiquidSolution(hdr), page) # {}

\* the weight fraction the document gives for silicon in the metallic
\* liquid of a page, 0 when no silicon row qualifies
SourceSiFraction(hdr, page) ==
    LET kept == QualifyingSpecies(MetalLiquidSolution(hdr), page)
    IN  IF \E sp \in kept : sp.name = Si
        THEN ResultOrZero(page, SpeciesNamed(kept, Si).id).W
        ELSE 0

\* that fraction as a weight percent of three decimals
SourceSiPercent(hdr, page) ==
    FloatOf(fmt3(100 * SourceSiFraction(hdr, page), Scale), Scale)

\* the Celsius temperature of a page to three decimals
SourceCelsius(page) == FloatOf(fmt3(CelsiusOf(page), TScale), TScale)

\* the pages of the document that are candidates for the best liquid
SourceCandidates ==
    {j \in 1..Len(doc.pages) :
        /\ HeaderRecognised(doc.pages[j])
        /\ LiquidListed(doc.header, doc.pages[j])}

\* the candidate with the largest score; among equals the hottest, and
\* among those the first of the document
BestSource(score(_)) ==
    LET T(j) == SourceCelsius(doc.pages[j])
        Beats(k, j) ==
            \/ score(k) > score(j)
            \/ /\ score(k) = score(j)
               /\ (T(k) > T(j) \/ (T(k) = T(j) /\ k < j))
    IN  CHOOSE j \in SourceCandidates :
            \A k \in SourceCandidates : ~Beats(k, j)

\* the report of a document of one run without a precipitating solid and
\* with a metallic liquid somewhere
OneRunReported ==
    /\ pc = "written"
    /\ Len(sims) = 1
    /\ \A m \in 1..Len(pages) : ~HasMetalMatch(pages[m])
    /\ SourceCandidates # {}

\* the document of the example: 1600 C with Si at 0.02, 1500 C with Si at
\* 0.05 (and four in the seventh decimal)
ExampleDoc ==
    DocOf(<<DocPage(1, At1600, TRUE, LiquidSi2, FALSE, <<None, None>>),
            DocPage(2, At1500, TRUE, LiquidSi5, FALSE, <<None, None>>)>>)

\* C6 as stated, for documents whose pages the reconstructor all takes: the
\* report has one row, best_T is the temperature of the condition with the
\* largest silicon weight fraction in the metallic liquid, best_Si is that
\* weight fraction as the document gives it (0.05 for 0.05), and the stop
\* fields are "not found".
C6_AsClaimed ==
    (OneRunReported /\ \A j \in 1..Len(doc.pages) :
                          HeaderRecognised(doc.pages[j])) =>
        LET Fraction(j) == SourceSiFraction(doc.header, doc.pages[j])
            best == BestSource(Fraction)
            h == Val(hits)
        IN  /\ Len(csv) = 1 /\ Len(h) = 1
            /\ h[1].best_T = Some(SourceCelsius(doc.pages[best]))
            /\ h[1].best_Si # None
            /\ Near(Val(h[1].best_Si), Fraction(best), Half3)
            /\ csv[1].stop_T = NotFound
            /\ csv[1].stop_phases = NotFound

\* C6: when the conditions reconstructed from a document form one run, none
\* of them holds a metal-intermetallic match and one of them lists a
\* metallic liquid with a row, the report has one row; its best_Si is the
\* largest silicon weight PERCENT of the metallic liquid among them, 100
\* times the fraction of the document to three decimals (5.0, printed 5.000,
\* for 0.05); its best_T is the temperature of the first condition with that
\* percent in descending temperature; its stop fields are "not found".  The
\* example gives best_T 1500.00 and best_Si 5.000.
C6_EndToEnd ==
    OneRunReported =>
        LET Percent(j) == SourceSiPercent(doc.header, doc.pages[j])
            best == BestSource(Percent)
            h == Val(hits)
        IN  /\ Len(csv) = 1 /\ Len(h) = 1
            /\ h[1].best_T = Some(SourceCelsius(doc.pages[best]))
            /\ h[1].best_Si = Some(Percent(best))
            /\ csv[1].best_T
                  = NumCell(Fixed(SourceCelsius(doc.pages[best]), TScale, 2))
            /\ csv[1].best_Si = NumCell(fmt3(Percent(best), Scale))
            /\ csv[1].stop_T = NotFound
            /\ csv[1].stop_phases = NotFound
            /\ doc = ExampleDoc =>
                  /\ h[1].best_T = Some(1500 * TScale)
                  /\ h[1].best_Si = Some(5 * Scale)

\* the example, reported
C6_Witness ==
    /\ pc = "written"
    /\ doc = ExampleDoc
    /\ Len(sims) = 1 /\ Len(csv) = 1
    /\ csv[1].best_T = NumCell(Fixed(1500 * TScale, TScale, 2))
    /\ csv[1].best_Si = NumCell(Fixed(5 * Scale, Scale, 3))
    /\ csv[1].stop_T = NotFound /\ csv[1].stop_phases = NotFound

-----------------------------------------------------------------------------
(* The first-slag-solid event of analyze_simulation, over runs whose pages *)
(* hold slag liquids and slag solids                                       *)

MaxSlagPages == 3

\* what a page of such a run may hold: a slag liquid and a metallic liquid;
\* a stop page with a slag liquid and a slag pure solid; a stop page with a
\* slag liquid, a slag-solid solution phase and slag pure solids, one of
\* them twice; a slag-solid solution phase without rows, a slag pure solid
\* below 0.01, and a liquid labelled "Slag-liquid" ahead of the metallic
\* liquid; a slag pure solid at 0.01 beside a slag liquid; a metallic
\* liquid alone
SlagContents ==
    { [phases |-> <<Phase(FeLiq, <<Row(Fe, 95, 95), Row(Si, 5, 5)>>),
                    Phase(SlagLiq, <<Row(SiO2, 9, 60), Row(CaO, 6, 40)>>)>>,
       pure_solids |-> <<>>],
      [phases |-> <<Phase(FeLiq, <<Row(Fe, 91, 91), Row(Si, 9, 9)>>),
                    Phase(SlagLiq, <<Row(CaO, 8, 80), Row(SiO2, 2, 20)>>)>>,
       pure_solids |-> <<Solid(SiO2s, Scale), Solid(FeSi2s, Scale)>>],
      [phases |-> <<Phase(SlagLiq, <<Row(SiO2, 5, 50), Row(CaO, 5, 50)>>),
                    Phase(MeO_A, <<Row(CaO, 4, 100)>>)>>,
       pure_solids |-> <<Solid(SiO2s, Scale), Solid(FeSi2s, Scale),
                         Solid(CaO, Scale), Solid(SiO2s, G_MIN)>>],
      [phases |-> <<Phase(MeO_A, <<>>),
                    Phase(SlagLiquid, <<Row(SiO2, 7, 70), Row(CaO, 3, 30)>>),
                    Phase(FeLiq, <<Row(Fe, 97, 97), Row(Si, 3, 3)>>)>>,
       pure_solids |-> <<Solid(SiO2s, G_MIN - 1)>>],
      [phases |-> <<Phase(FeLiq, <<>>),
                    Phase(SlagLiq, <<Row(SiO2, 8, 40), Row(CaO, 12, 60)>>)>>,
       pure_solids |-> <<Solid(SiO2s, G_MIN)>>],
      [phases |-> <<Phase(FeLiq, <<Row(Fe, 100, 100)>>)>>,
       pure_solids |-> <<>>] }

InitSlag ==
    /\ pc = "analyze"
    /\ \E n \in 0..MaxSlagPages : \E f \in [1..n -> Temps \X SlagContents] :
          sim = RunOf(f)
    /\ sim_pages = <<>> /\ pg_idx = 0 /\ loc = InitLocals /\ result = None
    /\ IdleGroup /\ IdleReport /\ IdleConvert

SpecSlag == InitSlag /\ [][Next]_vars

\* the pages the loop of line 412 has entered so far
ScannedUpTo == IF loc.broke THEN pg_idx ELSE pg_idx - 1

SlagSolidNames(pg) ==
    {ph.name : ph \in {q \in Range(pg.phases) :
                         q.rows # <<>> /\ is_slag_solid_phase(q.name)}}
    \cup
    {ps.name : ps \in {q \in Range(pg.pure_solids) :
                         q.g >= G_MIN /\ is_slag_puresolid(q.name)}}

\* the first phase of a page that is a slag liquid with rows
FirstSlagLiquid(pg) ==
    pg.phases[CHOOSE k \in 1..Len(pg.phases) :
        /\ is_slag_liquid_phase(pg.phases[k].name)
        /\ pg.phases[k].rows # <<>>
        /\ \A b \in 1..(k - 1) :
              ~(/\ is_slag_liquid_phase(pg.phases[b].name)
                /\ pg.phases[b].rows # <<>>)]

\* the scan positions, among those entered, that hold a slag solid
SlagEvents == {j \in 1..ScannedUpTo : HasSlagSolid(sim_pages[j])}

FirstSlagEvent == CHOOSE j \in SlagEvents : \A m \in SlagEvents : j <= m

\* the positions strictly before the event that hold a slag liquid
SlagLiquidsBefore ==
    {m \in 1..(FirstSlagEvent - 1) : HasSlagLiquid(sim_pages[m])}

LatestSlagLiquidBefore ==
    CHOOSE m \in SlagLiquidsBefore : \A b \in SlagLiquidsBefore : b <= m

\* C11: the first-slag-solid event is that of the first page scanned that
\* holds a slag-solid solution phase with a row or a slag pure solid with
\* mass >= 0.01, the stop page included, and once recorded it stays; its
\* names are sorted and duplicate-free; slag_comp_before is the composition
\* of the slag liquid of the latest page scanned strictly before the event
\* that held one with a row, never that of the page of the event, and it is
\* empty when no earlier page held one.
C11_SlagFirst ==
    pc \in {"scan", "returned"} =>
        /\ IF SlagEvents = {}
           THEN /\ loc.slag_first_T = None
                /\ loc.slag_first_phases = <<>>
                /\ loc.slag_comp_before = None
           ELSE /\ loc.slag_first_T = Some(sim_pages[FirstSlagEvent].T_C)
                /\ Range(loc.slag_first_phases)
                      = SlagSolidNames(sim_pages[FirstSlagEvent])
                /\ StrictlySorted(loc.slag_first_phases)
                /\ IF SlagLiquidsBefore = {}
                   THEN loc.slag_comp_before = None
                   ELSE loc.slag_comp_before =
                           Some(CompOf(FirstSlagLiquid(
                                   sim_pages[LatestSlagLiquidBefore]).rows))
        /\ pc = "returned" =>
              /\ Val(result).slag_first_T = loc.slag_first_T
              /\ Val(result).slag_first_phases = loc.slag_first_phases
              /\ Val(result).slag_comp_before = OrEmpty(loc.slag_comp_before)
              /\ (SlagEvents = {} \/ SlagLiquidsBefore = {})
                    => Val(result).slag_comp_before = <<>>

\* a run returned whose event is at the stop page, which holds a slag liquid
\* itself and several slag solids, one of them twice, and follows a page
\* with a slag liquid of another composition
C11_Witness ==
    /\ pc = "returned"
    /\ SlagEvents # {}
    /\ loc.broke /\ FirstSlagEvent = pg_idx
    /\ HasSlagLiquid(sim_pages[FirstSlagEvent])
    /\ SlagLiquidsBefore # {}
    /\ Val(result).slag_comp_before
          # CompOf(FirstSlagLiquid(sim_pages[FirstSlagEvent]).rows)
    /\ Val(result).slag_comp_before # <<>>
    /\ Len(Val(result).slag_first_phases) >= 2

-----------------------------------------------------------------------------
(* The two liquid classes *)

\* the labels of the solution phases of the run
RunLabels ==
    UNION {{ph.name : ph \in Range(sim_pages[j].phases)} :
              j \in 1..Len(sim_pages)}

\* C12 as stated: no solution-phase label is both a metallic liquid and a
\* slag liquid, so the best liquid of a run is never the composition of a
\* phase classified as slag liquid; "Slag-liq" is a slag liquid and not a
\* metallic liquid.
C12_AsClaimed ==
    pc = "returned" =>
        /\ \A label \in RunLabels :
              ~(is_metal_liquid_phase(label) /\ is_slag_liquid_phase(label))
        /\ \A j \in 1..Len(sim_pages) :
              \A ph \in Range(sim_pages[j].phases) :
                 (/\ is_slag_liquid_phase(ph.name) /\ ph.rows # <<>>
                  /\ Val(result).best_T = Some(sim_pages[j].T_C))
                    => Val(result).best_comp # CompOf(ph.rows)
        /\ is_slag_liquid_phase(SlagLiq)
        /\ ~is_metal_liquid_phase(SlagLiq)

=============================================================================
